---- MODULE Spec2Model ----
(***************************************************************************)
(* SnapprOps payroll: the storage layer's payroll generation               *)
(* (DatabaseStorage.generatePayrollForPeriod), the tables it reads and     *)
(* writes, and the HTTP handlers that drive it.                            *)
(*                                                                         *)
(* Money is held in cents.  A value computed by the generator before it is *)
(* serialised is a pair [c, r]: c whole cents (floor) and r the part below *)
(* a cent in units of 10^-6 cent (10^-8 currency unit), which is the       *)
(* finest grain gross * 0.045 can have when rates, hours and amounts have  *)
(* two decimals.  Hours are held in hundredths of an hour.                 *)
(*                                                                         *)
(* The generator computes in IEEE doubles.  On the magnitudes modelled a   *)
(* double differs from the exact decimal value by far less than 10^-8, so  *)
(* the NUMERIC(10,2) column rounds it as it would round the exact value,   *)
(* except when the exact value lies exactly half way between two cents:    *)
(* there the double may fall on either side, and the stored value is a     *)
(* choice between the two (StoreSet).                                      *)
(***************************************************************************)
EXTENDS Integers, Sequences, FiniteSets, TLC

VARIABLES employees, attendance, benefits, payroll, payrollRecords, response,
          serial

vars == <<employees, attendance, benefits, payroll, payrollRecords, response,
         serial>>

\* serial holds, for the attendance and the benefits table, the last value
\* of the id sequence given to a stored row: an id is never handed out
\* twice, also after the row that had it was deleted.  Employee and payroll
\* rows are never deleted, so their next id is the row count plus one.

(* ---------------------------- bounds ----------------------------------- *)
MaxEmployees == 2
MaxAttendance == 1
MaxBenefits == 1
MaxPayrollRows == 2
MaxBatchBenefits == 2
MaxBulk == 3
MaxSerial == 3

(* ------------------------ decimal arithmetic --------------------------- *)
M == 1000 * 1000

FromCents(c) == [c |-> c, r |-> 0]

Norm(c, r) == [c |-> c + (r \div M), r |-> r % M]

Add(a, b) == Norm(a.c + b.c, a.r + b.r)

Sub(a, b) == Norm(a.c - b.c, a.r - b.r)

Less(a, b) == a.c < b.c \/ (a.c = b.c /\ a.r < b.r)

MathMin(a, b) == IF Less(b, a) THEN b ELSE a

MathMax(a, b) == IF Less(a, b) THEN b ELSE a

\* a * n / d for a small integer ratio n / d with d dividing M
Scale(a, n, d) ==
    LET sn == (a.c % d) * n
    IN  Norm((a.c \div d) * n + (sn \div d),
             (sn % d) * (M \div d) + ((a.r * n) \div d))

IsZero(a) == a.c = 0 /\ a.r = 0

\* NUMERIC(p,2) input rounding of the serialised double: half away from
\* zero, either neighbour when the exact value is a tie
StoreSet(a) ==
    IF a.r = M \div 2 THEN {a.c, a.c + 1}
    ELSE IF a.r > M \div 2 THEN {a.c + 1}
    ELSE {a.c}

\* NUMERIC(5,2) holds |x| < 1000
FitsHours(h) == -100000 < h /\ h < 100000

(* ------------------------------ dates ---------------------------------- *)
Periods == {"2024-01", "2024-02"}

DateTruncMonth(date) == [ym |-> date.ym, d |-> 1]

PeriodAsDate(payPeriod) == [ym |-> payPeriod, d |-> 1]

\* ${payPeriod}::date raises an error for a token that names no month
DateCastOk(payPeriod) == payPeriod \in Periods

(* --------------------------- aggregation ------------------------------- *)
RECURSIVE SumOf(_, _)
SumOf(S, field) ==
    IF S = {} THEN 0
    ELSE LET x == CHOOSE y \in S : TRUE
         IN  x[field] + SumOf(S \ {x}, field)

getEmployees_unfiltered == DOMAIN employees

getEmployees == {id \in DOMAIN employees : employees[id].isActive}

getMonthlyAttendance_allMonths(employeeId, payPeriod) ==
    LET rows == {a \in attendance : a.employeeId = employeeId}
    IN  [totalHours |-> SumOf(rows, "hoursWorked"),
         overtimeHours |-> SumOf(rows, "overtime")]

getMonthlyAttendance(employeeId, payPeriod) ==
    LET rows == {a \in attendance :
                    /\ a.employeeId = employeeId
                    /\ DateTruncMonth(a.date) = PeriodAsDate(payPeriod)}
    IN  [totalHours |-> SumOf(rows, "hoursWorked"),
         overtimeHours |-> SumOf(rows, "overtime")]

getBenefits_allEmployees(employeeId, payPeriod) ==
    {b \in benefits : b.appliesTo = payPeriod}

getBenefits(employeeId, payPeriod) ==
    {b \in benefits : b.employeeId = employeeId /\ b.appliesTo = payPeriod}

(* ---------------------- the payroll computation ------------------------ *)
BasePay_alwaysHourly(employee, monthlyAttendance) ==
    Scale(FromCents(employee.salaryRate), monthlyAttendance.totalHours, 100)

BasePay_rateWithoutHours(employee, monthlyAttendance) ==
    IF employee.salaryType = "hourly" /\ monthlyAttendance.totalHours > 0
    THEN Scale(FromCents(employee.salaryRate), monthlyAttendance.totalHours, 100)
    ELSE FromCents(employee.salaryRate)

BasePay(employee, monthlyAttendance) ==
    IF employee.salaryType = "hourly"
    THEN Scale(FromCents(employee.salaryRate), monthlyAttendance.totalHours, 100)
    ELSE FromCents(employee.salaryRate)

OvertimePay_anyType(employee, monthlyAttendance) ==
    Scale(Scale(FromCents(employee.salaryRate), 15, 10),
          monthlyAttendance.overtimeHours, 100)

OvertimePay(employee, monthlyAttendance) ==
    IF employee.salaryType = "hourly"
    THEN Scale(Scale(FromCents(employee.salaryRate), 15, 10),
               monthlyAttendance.overtimeHours, 100)
    ELSE FromCents(0)

Allowances(employeeBenefits) ==
    FromCents(SumOf({b \in employeeBenefits : b.type = "Allowance"}, "amount"))

Bonuses(employeeBenefits) ==
    FromCents(SumOf({b \in employeeBenefits : b.type \in {"Bonus", "13th_month"}},
                    "amount"))

GrossPay(basePay, overtimePay, allowances, bonuses) ==
    Add(Add(Add(basePay, overtimePay), allowances), bonuses)

SssDeduction_capped(grossPay) ==
    MathMin(Scale(grossPay, 45, 1000), FromCents(135000))

SssDeduction(grossPay) == Scale(grossPay, 45, 1000)

PhilHealthDeduction(grossPay) == Scale(grossPay, 45, 1000)

PagIbigDeduction_uncapped(grossPay) == Scale(grossPay, 2, 100)

PagIbigDeduction(grossPay) == MathMin(Scale(grossPay, 2, 100), FromCents(10000))

\* lib/payroll-calculations.ts: the progressive income-tax utility of the
\* client library (thresholds and base amounts in cents)
calculateIncomeTax(grossPay, exemptions) ==
    LET taxableIncome == MathMax(FromCents(0), Sub(grossPay, exemptions))
        over(limit) == Sub(taxableIncome, FromCents(limit))
    IN  IF ~Less(FromCents(2083300), taxableIncome) THEN FromCents(0)
        ELSE IF ~Less(FromCents(3333300), taxableIncome)
        THEN Scale(over(2083300), 15, 100)
        ELSE IF ~Less(FromCents(6666700), taxableIncome)
        THEN Add(FromCents(187500), Scale(over(3333300), 20, 100))
        ELSE IF ~Less(FromCents(16666700), taxableIncome)
        THEN Add(FromCents(854167), Scale(over(6666700), 25, 100))
        ELSE IF ~Less(FromCents(66666700), taxableIncome)
        THEN Add(FromCents(3354167), Scale(over(16666700), 30, 100))
        ELSE Add(FromCents(18354167), Scale(over(66666700), 35, 100))

TaxDeduction_progressive(grossPay) == calculateIncomeTax(grossPay, FromCents(0))

\* taxDeduction: "0" in the pushed record
TaxDeduction(grossPay) == FromCents(0)

OtherDeductions_statutoryToo(employeeBenefits) ==
    FromCents(SumOf({b \in employeeBenefits :
                        b.type \in {"Deduction", "SSS", "PhilHealth", "Pag-IBIG"}},
                    "amount"))

OtherDeductions(employeeBenefits) ==
    FromCents(SumOf({b \in employeeBenefits : b.type = "Deduction"}, "amount"))

TotalDeductions(sss, philHealth, pagIbig, other) ==
    Add(Add(Add(sss, philHealth), pagIbig), other)

NetPay(grossPay, totalDeductions) == Sub(grossPay, totalDeductions)

\* one iteration of the loop: the InsertPayroll value pushed for an employee
ComputeRecord(id, payPeriod) ==
    LET employee == employees[id]
        monthlyAttendance == getMonthlyAttendance(id, payPeriod)
        employeeBenefits == getBenefits(id, payPeriod)
        basePay == BasePay(employee, monthlyAttendance)
        overtimePay == OvertimePay(employee, monthlyAttendance)
        allowances == Allowances(employeeBenefits)
        bonuses == Bonuses(employeeBenefits)
        grossPay == GrossPay(basePay, overtimePay, allowances, bonuses)
        sssDeduction == SssDeduction(grossPay)
        philHealthDeduction == PhilHealthDeduction(grossPay)
        pagIbigDeduction == PagIbigDeduction(grossPay)
        otherDeductions == OtherDeductions(employeeBenefits)
        totalDeductions == TotalDeductions(sssDeduction, philHealthDeduction,
                                           pagIbigDeduction, otherDeductions)
        netPay == NetPay(grossPay, totalDeductions)
    IN  [employeeId |-> id,
         payPeriod |-> payPeriod,
         hoursWorked |-> monthlyAttendance.totalHours,
         overtimeHours |-> monthlyAttendance.overtimeHours,
         basePay |-> basePay,
         overtimePay |-> overtimePay,
         allowances |-> allowances,
         bonuses |-> bonuses,
         grossPay |-> grossPay,
         sssDeduction |-> sssDeduction,
         philHealthDeduction |-> philHealthDeduction,
         pagIbigDeduction |-> pagIbigDeduction,
         taxDeduction |-> TaxDeduction(grossPay),
         otherDeductions |-> otherDeductions,
         totalDeductions |-> totalDeductions,
         netPay |-> netPay]

(* ------------------- serialisation and the insert ---------------------- *)
\* grossPay is the very double of its only non-zero summand when the other
\* three are zero (x + 0 = x), so it is stored as that summand is
GrossStoreSet(rec, storedBase, storedOvertime) ==
    IF IsZero(rec.overtimePay) /\ IsZero(rec.allowances) /\ IsZero(rec.bonuses)
    THEN {storedBase}
    ELSE IF IsZero(rec.basePay) /\ IsZero(rec.allowances) /\ IsZero(rec.bonuses)
    THEN {storedOvertime}
    ELSE StoreSet(rec.grossPay)

\* the rows the payroll table can hold for one InsertPayroll value: every
\* money field goes through toString() and the NUMERIC(10,2) column on its
\* own; sssDeduction and philHealthDeduction are the same double
StoredRows(rec, id) ==
    UNION {
        {[id |-> id,
          employeeId |-> rec.employeeId,
          payPeriod |-> rec.payPeriod,
          hoursWorked |-> rec.hoursWorked,
          overtimeHours |-> rec.overtimeHours,
          basePay |-> b,
          overtimePay |-> o,
          allowances |-> rec.allowances.c,
          bonuses |-> rec.bonuses.c,
          grossPay |-> g,
          sssDeduction |-> s,
          philHealthDeduction |-> s,
          pagIbigDeduction |-> p,
          taxDeduction |-> rec.taxDeduction.c,
          otherDeductions |-> rec.otherDeductions.c,
          totalDeductions |-> t,
          netPay |-> n] :
            g \in GrossStoreSet(rec, b, o),
            s \in StoreSet(rec.sssDeduction),
            p \in StoreSet(rec.pagIbigDeduction),
            t \in StoreSet(rec.totalDeductions),
            n \in StoreSet(rec.netPay)} :
        b \in StoreSet(rec.basePay),
        o \in StoreSet(rec.overtimePay)}

\* db.insert(payroll).values(records): the sets of rows one statement can add
RECURSIVE InsertedRows(_, _)
InsertedRows(records, firstId) ==
    IF records = <<>> THEN {{}}
    ELSE {{row} \cup rest :
            row \in StoredRows(Head(records), firstId),
            rest \in InsertedRows(Tail(records), firstId + 1)}

\* the insert fails as a whole when a value does not fit its column
InsertFits(records) ==
    \A i \in 1..Len(records) :
        FitsHours(records[i].hoursWorked) /\ FitsHours(records[i].overtimeHours)

\* the orders ORDER BY name can return a set of employees in (names are not
\* part of the state, so every order is possible)
Orders(S) ==
    {seq \in [1..Cardinality(S) -> S] :
        \A i, j \in 1..Cardinality(S) : i # j => seq[i] # seq[j]}

getPayrollSummary(table, payPeriod) ==
    LET rows == {p \in table : p.payPeriod = payPeriod}
    IN  [totalEmployees |-> Cardinality(rows),
         totalGrossPay |-> SumOf(rows, "grossPay"),
         totalDeductions |-> SumOf(rows, "totalDeductions"),
         totalNetPay |-> SumOf(rows, "netPay"),
         payPeriod |-> payPeriod]

(* ----------------------------- requests -------------------------------- *)
Reply(op, status, payPeriod) == [op |-> op, status |-> status, payPeriod |-> payPeriod]

ReplyWith(op, status, payPeriod, body) ==
    [op |-> op, status |-> status, payPeriod |-> payPeriod, body |-> body]

\* the exchange of a request that names a row by :id
ReplyTo(op, id, status, body) ==
    [op |-> op, status |-> status, payPeriod |-> "", id |-> id, body |-> body]

\* the 400 answer to a body that fails its schema: "Validation error" and
\* error.errors, here the set of the issue paths
Rejected(op, req, issues) ==
    [op |-> op, status |-> 400, payPeriod |-> "", request |-> req, body |-> issues]

\* A request body is the record of the fields it gives with a value of the
\* right JSON type, and the set of the fields it gives with a value of a
\* wrong type.  A decimal text ("160.00", "-5") is held as the number it
\* writes, in hundredths.
Request(body) == [body |-> body, wrongType |-> {}]

\* createInsertSchema(table).omit({id, createdAt, updatedAt}): the columns
\* modelled, those a body must give (NOT NULL without default), the column
\* defaults, and the fields whose text must match /^\d+(\.\d{1,2})?$/
insertEmployeeSchema ==
    [fields |-> {"name", "salaryRate", "salaryType", "isActive"},
     required |-> {"name", "salaryRate"},
     defaults |-> [salaryType |-> "monthly", isActive |-> TRUE],
     unsignedText |-> {"salaryRate"}]

insertAttendanceSchema ==
    [fields |-> {"employeeId", "date", "hoursWorked", "overtime"},
     required |-> {"employeeId", "date", "hoursWorked"},
     defaults |-> [overtime |-> 0],
     unsignedText |-> {}]

insertBenefitSchema ==
    [fields |-> {"employeeId", "type", "amount", "isTaxable", "appliesTo"},
     required |-> {"employeeId", "type", "amount", "appliesTo"},
     defaults |-> [isTaxable |-> FALSE],
     unsignedText |-> {}]

ZodIssues_firstIssue(schema, partial, req) ==
    LET given == DOMAIN req.body \cup req.wrongType
        all == (req.wrongType \cap schema.fields)
                   \cup (IF partial THEN {} ELSE schema.required \ given)
                   \cup {f \in schema.unsignedText \cap DOMAIN req.body :
                            req.body[f] < 0}
    IN  IF all = {} THEN {} ELSE {CHOOSE f \in all : TRUE}

\* the paths of the issues schema.parse(body) collects (all of them, in one
\* ZodError); partial is schema.partial(), which requires no field
ZodIssues(schema, partial, req) ==
    LET given == DOMAIN req.body \cup req.wrongType
    IN  (req.wrongType \cap schema.fields)
            \cup (IF partial THEN {} ELSE schema.required \ given)
            \cup {f \in schema.unsignedText \cap DOMAIN req.body : req.body[f] < 0}

\* { ...base, ...over }
Overlay(base, over) ==
    [f \in DOMAIN base \cup DOMAIN over |->
        IF f \in DOMAIN over THEN over[f] ELSE base[f]]

\* the parsed body: unknown keys stripped
Parsed(schema, req) ==
    [f \in DOMAIN req.body \cap schema.fields |-> req.body[f]]

\* the row an insert of the parsed body makes, column defaults filled in
ValidatedData(schema, req) == Overlay(schema.defaults, Parsed(schema, req))

RateInputs == {50000}
TypeInputs == {"hourly"}
NameInputs == {"Ana Cruz"}
DateInputs == {[ym |-> "2024-01", d |-> 15]}
HoursInputs == {16000}
OvertimeInputs == {1000}
BenefitTypeInputs == {"Allowance"}
TaxableInputs == {TRUE}
AmountInputs == {200000}
AppliesToInputs == {"2024-01"}
\* the pay-period token of a generate request; "" is a missing token and
\* "January" one that is not of the form YYYY-MM
PeriodInputs == {"2024-01", "", "January"}

\* POST /api/employees
CreateEmployee(req) ==
    /\ Len(employees) < MaxEmployees
    /\ LET issues == ZodIssues(insertEmployeeSchema, FALSE, req)
       IN  IF issues # {}
           THEN /\ employees' = employees
                /\ response' = Rejected("createEmployee", req, issues)
           ELSE /\ employees' = Append(employees,
                                       ValidatedData(insertEmployeeSchema, req))
                /\ response' = Reply("createEmployee", 201, "")
    /\ payrollRecords' = <<>>
    /\ UNCHANGED <<attendance, benefits, payroll, serial>>

DeleteEmployee_cascade(id) ==
    /\ employees' = [i \in DOMAIN employees |->
                        IF i = id THEN [employees[i] EXCEPT !.isActive = FALSE]
                        ELSE employees[i]]
    /\ attendance' = {a \in attendance : a.employeeId # id}
    /\ response' = ReplyTo("deleteEmployee", id, 200, "Employee deleted successfully")
    /\ payrollRecords' = <<>>
    /\ UNCHANGED <<benefits, payroll, serial>>

DeleteEmployee_withPayroll(id) ==
    /\ employees' = [i \in DOMAIN employees |->
                        IF i = id THEN [employees[i] EXCEPT !.isActive = FALSE]
                        ELSE employees[i]]
    /\ payroll' = {row \in payroll : row.employeeId # id}
    /\ response' = ReplyTo("deleteEmployee", id, 200, "Employee deleted successfully")
    /\ payrollRecords' = <<>>
    /\ UNCHANGED <<attendance, benefits, serial>>

\* DELETE /api/employees/:id
DeleteEmployee(id) ==
    /\ employees' = [i \in DOMAIN employees |->
                        IF i = id THEN [employees[i] EXCEPT !.isActive = FALSE]
                        ELSE employees[i]]
    /\ response' = ReplyTo("deleteEmployee", id, 200, "Employee deleted successfully")
    /\ payrollRecords' = <<>>
    /\ UNCHANGED <<attendance, benefits, payroll, serial>>

\* GET /api/employees/:id
GetEmployee(id) ==
    /\ response' = IF id \in DOMAIN employees
                   THEN ReplyTo("getEmployee", id, 200, employees[id])
                   ELSE ReplyTo("getEmployee", id, 404, "Employee not found")
    /\ payrollRecords' = <<>>
    /\ UNCHANGED <<employees, attendance, benefits, payroll, serial>>

UpdateEmployee_restatesPayroll(id, req) ==
    /\ LET issues == ZodIssues(insertEmployeeSchema, TRUE, req)
           updated == [i \in DOMAIN employees |->
                          IF i = id
                          THEN Overlay(employees[i], Parsed(insertEmployeeSchema, req))
                          ELSE employees[i]]
       IN  IF issues # {}
           THEN /\ UNCHANGED <<employees, payroll>>
                /\ response' = Rejected("updateEmployee", req, issues)
           ELSE /\ employees' = updated
                /\ payroll' = {IF row.employeeId = id /\ id \in DOMAIN employees
                               THEN [row EXCEPT !.basePay = updated[id].salaryRate]
                               ELSE row : row \in payroll}
                /\ response' = ReplyTo("updateEmployee", id, 200,
                                       IF id \in DOMAIN employees
                                       THEN <<updated[id]>> ELSE <<>>)
    /\ payrollRecords' = <<>>
    /\ UNCHANGED <<attendance, benefits, serial>>

\* PUT /api/employees/:id; the body of the answer is what UPDATE ...
\* RETURNING gave: the row, or nothing when no row has the id
UpdateEmployee(id, req) ==
    /\ LET issues == ZodIssues(insertEmployeeSchema, TRUE, req)
           updated == [i \in DOMAIN employees |->
                          IF i = id
                          THEN Overlay(employees[i], Parsed(insertEmployeeSchema, req))
                          ELSE employees[i]]
       IN  IF issues # {}
           THEN /\ employees' = employees
                /\ response' = Rejected("updateEmployee", req, issues)
           ELSE /\ employees' = updated
                /\ response' = ReplyTo("updateEmployee", id, 200,
                                       IF id \in DOMAIN employees
                                       THEN <<updated[id]>> ELSE <<>>)
    /\ payrollRecords' = <<>>
    /\ UNCHANGED <<attendance, benefits, payroll, serial>>

\* the foreign key on employee_id and the NUMERIC(5,2) columns of attendance
AttendanceFits(row) ==
    /\ row.employeeId \in DOMAIN employees
    /\ FitsHours(row.hoursWorked)
    /\ FitsHours(row.overtime)

\* POST /api/attendance
CreateAttendance(req) ==
    /\ Cardinality(attendance) < MaxAttendance
    /\ serial.attendance < MaxSerial
    /\ LET issues == ZodIssues(insertAttendanceSchema, FALSE, req)
           row == ValidatedData(insertAttendanceSchema, req)
       IN  IF issues # {}
           THEN /\ UNCHANGED <<attendance, serial>>
                /\ response' = Rejected("createAttendance", req, issues)
           ELSE IF AttendanceFits(row)
           THEN /\ attendance' = attendance \cup
                        {Overlay([id |-> serial.attendance + 1], row)}
                /\ serial' = [serial EXCEPT !.attendance = @ + 1]
                /\ response' = Reply("createAttendance", 201, "")
           ELSE /\ UNCHANGED <<attendance, serial>>
                /\ response' = Reply("createAttendance", 500, "")
    /\ payrollRecords' = <<>>
    /\ UNCHANGED <<employees, benefits, payroll>>

\* db.insert(attendance).values(attendanceRecords): one row per element,
\* ids in sequence order
RECURSIVE BulkRows(_, _)
BulkRows(reqs, firstId) ==
    IF reqs = <<>> THEN {}
    ELSE {Overlay([id |-> firstId], ValidatedData(insertAttendanceSchema, Head(reqs)))}
            \cup BulkRows(Tail(reqs), firstId + 1)

ElementParses(req) == ZodIssues(insertAttendanceSchema, FALSE, req) = {}

BulkCreateAttendance_rowByRow(reqs) ==
    /\ Cardinality(attendance) + Len(reqs) <= MaxBulk
    /\ serial.attendance + Len(reqs) <= MaxSerial
    /\ LET issues == {<<i, f>> \in (1..Len(reqs)) \X insertAttendanceSchema.fields :
                         f \in ZodIssues(insertAttendanceSchema, FALSE, reqs[i])}
           parsed == SelectSeq(reqs, ElementParses)
           rows == BulkRows(parsed, serial.attendance + 1)
       IN  /\ attendance' = attendance \cup rows
           /\ serial' = [serial EXCEPT !.attendance = @ + Len(parsed)]
           /\ response' = IF issues # {}
                          THEN Rejected("bulkCreateAttendance", reqs, issues)
                          ELSE ReplyWith("bulkCreateAttendance", 201, "", rows)
    /\ payrollRecords' = <<>>
    /\ UNCHANGED <<employees, benefits, payroll>>

\* POST /api/attendance/bulk: z.array(insertAttendanceSchema).parse, then
\* one INSERT; the issue paths are [index, field].  An empty array passes
\* the parse and fails in values([]).
BulkCreateAttendance(reqs) ==
    /\ Cardinality(attendance) + Len(reqs) <= MaxBulk
    /\ serial.attendance + Len(reqs) <= MaxSerial
    /\ LET issues == {<<i, f>> \in (1..Len(reqs)) \X insertAttendanceSchema.fields :
                         f \in ZodIssues(insertAttendanceSchema, FALSE, reqs[i])}
           rows == BulkRows(reqs, serial.attendance + 1)
       IN  IF issues # {}
           THEN /\ UNCHANGED <<attendance, serial>>
                /\ response' = Rejected("bulkCreateAttendance", reqs, issues)
           ELSE IF reqs # <<>> /\ \A row \in rows : AttendanceFits(row)
           THEN /\ attendance' = attendance \cup rows
                /\ serial' = [serial EXCEPT !.attendance = @ + Len(reqs)]
                /\ response' = ReplyWith("bulkCreateAttendance", 201, "", rows)
           ELSE /\ UNCHANGED <<attendance, serial>>
                /\ response' = Reply("bulkCreateAttendance", 500, "")
    /\ payrollRecords' = <<>>
    /\ UNCHANGED <<employees, benefits, payroll>>

\* PUT /api/attendance/:id
UpdateAttendance(id, req) ==
    /\ LET issues == ZodIssues(insertAttendanceSchema, TRUE, req)
           updated == {IF a.id = id
                       THEN Overlay(a, Parsed(insertAttendanceSchema, req))
                       ELSE a : a \in attendance}
       IN  IF issues # {}
           THEN /\ attendance' = attendance
                /\ response' = Rejected("updateAttendance", req, issues)
           ELSE IF \A a \in updated : AttendanceFits(a)
           THEN /\ attendance' = updated
                /\ response' = ReplyTo("updateAttendance", id, 200,
                                       {a \in updated : a.id = id})
           ELSE /\ attendance' = attendance
                /\ response' = ReplyTo("updateAttendance", id, 500,
                                       "Failed to update attendance")
    /\ payrollRecords' = <<>>
    /\ UNCHANGED <<employees, benefits, payroll, serial>>

\* DELETE /api/attendance/:id
DeleteAttendance(id) ==
    /\ attendance' = {a \in attendance : a.id # id}
    /\ response' = ReplyTo("deleteAttendance", id, 200,
                           "Attendance deleted successfully")
    /\ payrollRecords' = <<>>
    /\ UNCHANGED <<employees, benefits, payroll, serial>>

\* PUT /api/benefits/:id
UpdateBenefit(id, req) ==
    /\ LET issues == ZodIssues(insertBenefitSchema, TRUE, req)
           updated == {IF b.id = id
                       THEN Overlay(b, Parsed(insertBenefitSchema, req))
                       ELSE b : b \in benefits}
       IN  IF issues # {}
           THEN /\ benefits' = benefits
                /\ response' = Rejected("updateBenefit", req, issues)
           ELSE IF \A b \in updated : b.employeeId \in DOMAIN employees
           THEN /\ benefits' = updated
                /\ response' = ReplyTo("updateBenefit", id, 200,
                                       {b \in updated : b.id = id})
           ELSE /\ benefits' = benefits
                /\ response' = ReplyTo("updateBenefit", id, 500,
                                       "Failed to update benefit")
    /\ payrollRecords' = <<>>
    /\ UNCHANGED <<employees, attendance, payroll, serial>>

\* DELETE /api/benefits/:id
DeleteBenefit(id) ==
    /\ benefits' = {b \in benefits : b.id # id}
    /\ response' = ReplyTo("deleteBenefit", id, 200, "Benefit deleted successfully")
    /\ payrollRecords' = <<>>
    /\ UNCHANGED <<employees, attendance, payroll, serial>>

\* POST /api/benefits
CreateBenefit(req) ==
    /\ Cardinality(benefits) < MaxBenefits
    /\ serial.benefits < MaxSerial
    /\ LET issues == ZodIssues(insertBenefitSchema, FALSE, req)
           row == ValidatedData(insertBenefitSchema, req)
       IN  IF issues # {}
           THEN /\ UNCHANGED <<benefits, serial>>
                /\ response' = Rejected("createBenefit", req, issues)
           ELSE IF row.employeeId \in DOMAIN employees
           THEN /\ benefits' = benefits \cup
                        {Overlay([id |-> serial.benefits + 1], row)}
                /\ serial' = [serial EXCEPT !.benefits = @ + 1]
                /\ response' = Reply("createBenefit", 201, "")
           ELSE /\ UNCHANGED <<benefits, serial>>
                /\ response' = Reply("createBenefit", 500, "")
    /\ payrollRecords' = <<>>
    /\ UNCHANGED <<employees, attendance, payroll>>

GeneratePayroll_consumesBenefits(payPeriod) ==
    /\ Cardinality(payroll) + Cardinality(getEmployees) <= MaxPayrollRows
    /\ UNCHANGED <<employees, attendance, serial>>
    /\ IF payPeriod = ""
       THEN /\ response' = Reply("generate", 400, payPeriod)
            /\ payrollRecords' = <<>>
            /\ UNCHANGED <<payroll, benefits>>
       ELSE \E activeEmployees \in Orders(getEmployees), storageOk \in BOOLEAN :
              LET records == [i \in 1..Len(activeEmployees) |->
                                 ComputeRecord(activeEmployees[i], payPeriod)]
              IN  IF /\ storageOk
                     /\ (activeEmployees = <<>> \/ DateCastOk(payPeriod))
                     /\ InsertFits(records)
                  THEN /\ \E rows \in InsertedRows(records, Cardinality(payroll) + 1) :
                              payroll' = payroll \cup rows
                       /\ benefits' = {b \in benefits : b.appliesTo # payPeriod}
                       /\ payrollRecords' = records
                       /\ response' = Reply("generate", 201, payPeriod)
                  ELSE /\ UNCHANGED <<payroll, benefits>>
                       /\ payrollRecords' = <<>>
                       /\ response' = Reply("generate", 500, payPeriod)

GeneratePayroll_rowByRow(payPeriod) ==
    /\ Cardinality(payroll) + Cardinality(getEmployees) <= MaxPayrollRows
    /\ UNCHANGED <<employees, attendance, benefits, serial>>
    /\ IF payPeriod = ""
       THEN /\ response' = Reply("generate", 400, payPeriod)
            /\ payrollRecords' = <<>>
            /\ payroll' = payroll
       ELSE \E activeEmployees \in Orders(getEmployees), storageOk \in BOOLEAN :
              LET records == [i \in 1..Len(activeEmployees) |->
                                 ComputeRecord(activeEmployees[i], payPeriod)]
              IN  IF /\ storageOk
                     /\ (activeEmployees = <<>> \/ DateCastOk(payPeriod))
                     /\ InsertFits(records)
                  THEN /\ \E rows \in InsertedRows(records, Cardinality(payroll) + 1) :
                              payroll' = payroll \cup rows
                       /\ payrollRecords' = records
                       /\ response' = Reply("generate", 201, payPeriod)
                  ELSE /\ IF activeEmployees # <<>> /\ DateCastOk(payPeriod)
                                /\ InsertFits(records)
                          THEN \E rows \in InsertedRows(<<records[1]>>,
                                                         Cardinality(payroll) + 1) :
                                  payroll' = payroll \cup rows
                          ELSE payroll' = payroll
                       /\ payrollRecords' = <<>>
                       /\ response' = Reply("generate", 500, payPeriod)

\* POST /api/payroll/generate, storage.generatePayrollForPeriod included.
\* storageOk = FALSE is any failed query or insert (the catch answers 500);
\* the insert is one statement, so it adds all rows or none.  The route
\* tests the token for presence only; the attendance query of the first
\* employee is where a token that is no month fails.
GeneratePayroll(payPeriod) ==
    /\ Cardinality(payroll) + Cardinality(getEmployees) <= MaxPayrollRows
    /\ UNCHANGED <<employees, attendance, benefits, serial>>
    /\ IF payPeriod = ""
       THEN /\ response' = Reply("generate", 400, payPeriod)
            /\ payrollRecords' = <<>>
            /\ payroll' = payroll
       ELSE \E activeEmployees \in Orders(getEmployees), storageOk \in BOOLEAN :
              LET records == [i \in 1..Len(activeEmployees) |->
                                 ComputeRecord(activeEmployees[i], payPeriod)]
              IN  IF /\ storageOk
                     /\ (activeEmployees = <<>> \/ DateCastOk(payPeriod))
                     /\ InsertFits(records)
                  THEN /\ \E rows \in InsertedRows(records, Cardinality(payroll) + 1) :
                              payroll' = payroll \cup rows
                       /\ payrollRecords' = records
                       /\ response' = Reply("generate", 201, payPeriod)
                  ELSE /\ payroll' = payroll
                       /\ payrollRecords' = <<>>
                       /\ response' = Reply("generate", 500, payPeriod)

Init ==
    /\ employees = <<>>
    /\ attendance = {}
    /\ benefits = {}
    /\ payroll = {}
    /\ payrollRecords = <<>>
    /\ response = Reply("none", 0, "")
    /\ serial = [attendance |-> 0, benefits |-> 0]

Next ==
    \/ \E name \in NameInputs, salaryRate \in RateInputs,
          salaryType \in TypeInputs :
          CreateEmployee(Request([name |-> name, salaryRate |-> salaryRate,
                                  salaryType |-> salaryType]))
    \/ \E id \in 1..MaxEmployees : DeleteEmployee(id)
    \/ \E employeeId \in 1..MaxEmployees, date \in DateInputs,
          hoursWorked \in HoursInputs, overtime \in OvertimeInputs :
          CreateAttendance(Request([employeeId |-> employeeId, date |-> date,
                                    hoursWorked |-> hoursWorked,
                                    overtime |-> overtime]))
    \/ \E employeeId \in 1..MaxEmployees, type \in BenefitTypeInputs,
          amount \in AmountInputs, isTaxable \in TaxableInputs,
          appliesTo \in AppliesToInputs :
          CreateBenefit(Request([employeeId |-> employeeId, type |-> type,
                                 amount |-> amount, isTaxable |-> isTaxable,
                                 appliesTo |-> appliesTo]))
    \/ \E payPeriod \in PeriodInputs : GeneratePayroll(payPeriod)

Spec == Init /\ [][Next]_vars

(* -------------- generation over populated tables ----------------------- *)
\* One employee with attendance on two days of 2024-01 and one of 2024-02
\* and five benefit entries, any subset of which may be present.  No value
\* computed from these inputs is an exact half cent, so every stored value
\* below is the one the doubles of the code produce.
CalcRateInputs == {50000, 6263, 3000000, 1234567}
CalcTypeInputs == {"hourly", "monthly", "weekly"}

CalcAttendance ==
    {[id |-> 1, employeeId |-> 1, date |-> [ym |-> "2024-01", d |-> 15],
      hoursWorked |-> 16000, overtime |-> 1000],
     [id |-> 2, employeeId |-> 1, date |-> [ym |-> "2024-01", d |-> 31],
      hoursWorked |-> 783, overtime |-> 50],
     [id |-> 3, employeeId |-> 1, date |-> [ym |-> "2024-02", d |-> 10],
      hoursWorked |-> 800, overtime |-> 0]}

CalcBenefits ==
    {[id |-> 1, employeeId |-> 1, type |-> "Allowance", amount |-> 200000,
      isTaxable |-> TRUE, appliesTo |-> "2024-01"],
     [id |-> 2, employeeId |-> 1, type |-> "Bonus", amount |-> 500000,
      isTaxable |-> TRUE, appliesTo |-> "2024-01"],
     [id |-> 3, employeeId |-> 1, type |-> "13th_month", amount |-> 300000,
      isTaxable |-> FALSE, appliesTo |-> "2024-01"],
     [id |-> 4, employeeId |-> 1, type |-> "Deduction", amount |-> 1000,
      isTaxable |-> FALSE, appliesTo |-> "2024-01"],
     [id |-> 5, employeeId |-> 1, type |-> "SSS", amount |-> 30000,
      isTaxable |-> TRUE, appliesTo |-> "2024-01"]}

InitCalc ==
    /\ employees \in {<<[salaryRate |-> salaryRate,
                         salaryType |-> salaryType,
                         isActive |-> TRUE]>> :
                        salaryRate \in CalcRateInputs, salaryType \in CalcTypeInputs}
    /\ attendance \in SUBSET CalcAttendance
    /\ benefits \in SUBSET CalcBenefits
    /\ payroll = {}
    /\ payrollRecords = <<>>
    /\ response = Reply("none", 0, "")
    /\ serial = [attendance |-> 3, benefits |-> 5]

NextCalc == \E payPeriod \in Periods \cup {""} : GeneratePayroll(payPeriod)

SpecCalc == InitCalc /\ [][NextCalc]_vars

(* ------------- generation over two employees and two periods ---------- *)
\* Employee 1 is hourly, employee 2 monthly, each active or deactivated;
\* attendance falls in both periods, and the benefit entries cover every
\* type of the schema comment, 'Deduction' and a type outside the list.
BatchEmployees ==
    {<<[salaryRate |-> 50000, salaryType |-> "hourly", isActive |-> active1],
       [salaryRate |-> 3000000, salaryType |-> "monthly", isActive |-> active2]>> :
        active1 \in BOOLEAN, active2 \in BOOLEAN}

BatchAttendance ==
    {[id |-> 1, employeeId |-> 1, date |-> [ym |-> "2024-01", d |-> 15],
      hoursWorked |-> 16000, overtime |-> 1000],
     [id |-> 2, employeeId |-> 1, date |-> [ym |-> "2024-02", d |-> 10],
      hoursWorked |-> 800, overtime |-> 200],
     [id |-> 3, employeeId |-> 2, date |-> [ym |-> "2024-01", d |-> 20],
      hoursWorked |-> 783, overtime |-> 50]}

BatchBenefit(id, employeeId, type, amount, isTaxable, appliesTo) ==
    [id |-> id, employeeId |-> employeeId, type |-> type, amount |-> amount,
     isTaxable |-> isTaxable, appliesTo |-> appliesTo]

BatchBenefits ==
    {BatchBenefit(1, 1, "Allowance", 200000, TRUE, "2024-01"),
     BatchBenefit(2, 1, "Allowance", 15050, FALSE, "2024-01"),
     BatchBenefit(3, 1, "Bonus", 500000, TRUE, "2024-01"),
     BatchBenefit(4, 1, "13th_month", 300000, FALSE, "2024-01"),
     BatchBenefit(5, 1, "Deduction", 1000, FALSE, "2024-01"),
     BatchBenefit(6, 1, "SSS", 30000, FALSE, "2024-01"),
     BatchBenefit(7, 1, "PhilHealth", 20000, FALSE, "2024-01"),
     BatchBenefit(8, 1, "Pag-IBIG", 10000, FALSE, "2024-01"),
     BatchBenefit(9, 1, "Loan", 7700, FALSE, "2024-01"),
     BatchBenefit(10, 1, "Allowance", 99900, TRUE, "2024-02"),
     BatchBenefit(11, 2, "Bonus", 123400, TRUE, "2024-01")}

InitBatch ==
    /\ employees \in BatchEmployees
    /\ attendance \in SUBSET BatchAttendance
    /\ benefits \in {S \in SUBSET BatchBenefits : Cardinality(S) <= MaxBatchBenefits}
    /\ payroll = {}
    /\ payrollRecords = <<>>
    /\ response = Reply("none", 0, "")
    /\ serial = [attendance |-> 3, benefits |-> 11]

NextBatch == \E payPeriod \in Periods \cup {""} : GeneratePayroll(payPeriod)

SpecBatch == InitBatch /\ [][NextBatch]_vars

(* ---------------------- summary and CSV export ------------------------- *)
\* GET /api/payroll/summary
GetPayrollSummary(payPeriod) ==
    /\ UNCHANGED <<employees, attendance, benefits, payroll, serial>>
    /\ payrollRecords' = <<>>
    /\ IF payPeriod = ""
       THEN response' = Reply("summary", 400, payPeriod)
       ELSE \E storageOk \in BOOLEAN :
              response' = IF storageOk
                          THEN ReplyWith("summary", 200, payPeriod,
                                         getPayrollSummary(payroll, payPeriod))
                          ELSE Reply("summary", 500, payPeriod)

getPayroll_activeOnly(payPeriod) ==
    LET rows == {p \in payroll : /\ p.payPeriod = payPeriod
                                 /\ p.employeeId \in DOMAIN employees
                                 /\ employees[p.employeeId].isActive}
    IN  {[i \in 1..Cardinality(rows) |->
             [p |-> seq[i], employee |-> employees[seq[i].employeeId]]] :
         seq \in Orders(rows)}

\* storage.getPayroll: the payroll rows of the period, each joined to its
\* employee, in an order ORDER BY employees.name can give
getPayroll(payPeriod) ==
    LET rows == {p \in payroll : p.payPeriod = payPeriod /\
                                 p.employeeId \in DOMAIN employees}
    IN  {[i \in 1..Cardinality(rows) |->
             [p |-> seq[i], employee |-> employees[seq[i].employeeId]]] :
         seq \in Orders(rows)}

csvHeaders ==
    <<"Employee Name", "Position", "Hours Worked", "Gross Pay", "SSS Deduction",
      "PhilHealth Deduction", "Pag-IBIG Deduction", "Total Deductions", "Net Pay">>

csvRow(p) ==
    <<p.employee.name, p.employee.position, p.p.hoursWorked, p.p.grossPay,
      p.p.sssDeduction, p.p.philHealthDeduction, p.p.pagIbigDeduction,
      p.p.totalDeductions, p.p.netPay>>

\* `"${field}"`: the text of a field between two quote characters
Quoted(field) == <<"\"", field, "\"">>

\* pieces.join(sep): the pieces, themselves texts, with sep between them
RECURSIVE Join(_, _)
Join(pieces, sep) ==
    IF pieces = <<>> THEN <<>>
    ELSE IF Len(pieces) = 1 THEN Head(pieces)
    ELSE Head(pieces) \o <<sep>> \o Join(Tail(pieces), sep)

\* the CSV text, as the sequence of its lines
csvContent(rows) ==
    [i \in 1..(Len(rows) + 1) |->
        LET row == IF i = 1 THEN csvHeaders ELSE csvRow(rows[i - 1])
        IN  Join([k \in 1..Len(row) |-> Quoted(row[k])], ",")]

\* GET /api/payroll/export
ExportPayroll(payPeriod) ==
    /\ UNCHANGED <<employees, attendance, benefits, payroll, serial>>
    /\ payrollRecords' = <<>>
    /\ IF payPeriod = ""
       THEN response' = Reply("export", 400, payPeriod)
       ELSE \E rows \in getPayroll(payPeriod), storageOk \in BOOLEAN :
              response' = IF storageOk
                          THEN ReplyWith("export", 200, payPeriod, csvContent(rows))
                          ELSE Reply("export", 500, payPeriod)

ViewEmployees ==
    {<<[name |-> "Ana Cruz", position |-> "Clerk", salaryRate |-> 50000,
        salaryType |-> "hourly", isActive |-> TRUE],
       [name |-> "Ben Reyes", position |-> "Driver", salaryRate |-> 3000000,
        salaryType |-> "monthly", isActive |-> active2]>> : active2 \in BOOLEAN}

ViewAttendance ==
    {[id |-> 1, employeeId |-> 1, date |-> [ym |-> "2024-01", d |-> 15],
      hoursWorked |-> 16000, overtime |-> 1000],
     [id |-> 2, employeeId |-> 1, date |-> [ym |-> "2024-02", d |-> 10],
      hoursWorked |-> 800, overtime |-> 200]}

InitViews ==
    /\ employees \in ViewEmployees
    /\ attendance \in SUBSET ViewAttendance
    /\ benefits = {}
    /\ payroll = {}
    /\ payrollRecords = <<>>
    /\ response = Reply("none", 0, "")
    /\ serial = [attendance |-> 2, benefits |-> 0]

NextViews ==
    \/ \E payPeriod \in Periods : GeneratePayroll(payPeriod)
    \/ \E payPeriod \in Periods \cup {""} : GetPayrollSummary(payPeriod)
    \/ \E payPeriod \in Periods \cup {""} : ExportPayroll(payPeriod)

SpecViews == InitViews /\ [][NextViews]_vars

(* ------------------- requests on the employee table -------------------- *)
\* bodies of POST /api/employees: an hourly employee, one whose salaryType
\* is no known type, one without a name and with the salaryRate "-1.00",
\* and one whose salaryRate is a JSON number
EmployeeBodies ==
    {Request([name |-> "Ana Cruz", salaryRate |-> 50000, salaryType |-> "hourly"]),
     Request([name |-> "Ana Cruz", salaryRate |-> 100000, salaryType |-> "weekly"]),
     Request([salaryRate |-> -100, salaryType |-> "hourly"]),
     [body |-> [name |-> "Ana Cruz"], wrongType |-> {"salaryRate"}]}

\* bodies of PUT /api/employees/:id
EmployeeChanges ==
    {Request([salaryType |-> "daily"]),
     Request([salaryRate |-> -100]),
     [body |-> [salaryType |-> "hourly"], wrongType |-> {"name", "isActive"}]}

InitEmployees == Init

NextEmployees ==
    \/ \E req \in EmployeeBodies : CreateEmployee(req)
    \/ \E id \in 1..MaxEmployees : GetEmployee(id)
    \/ \E id \in 1..MaxEmployees, req \in EmployeeChanges : UpdateEmployee(id, req)
    \/ \E id \in 1..MaxEmployees : DeleteEmployee(id)

SpecEmployees == InitEmployees /\ [][NextEmployees]_vars

(* ------------------ requests on the attendance table ------------------- *)
\* bodies of POST /api/attendance and elements of the bulk array: eight
\* hours (overtime left to its default), 25 hours with overtime "-1.00", a
\* row for an employee that does not exist, and a body with neither date
\* nor hoursWorked
AttendanceBodies ==
    {Request([employeeId |-> 1, date |-> [ym |-> "2024-01", d |-> 15],
              hoursWorked |-> 800]),
     Request([employeeId |-> 1, date |-> [ym |-> "2024-01", d |-> 15],
              hoursWorked |-> 2500, overtime |-> -100]),
     Request([employeeId |-> 2, date |-> [ym |-> "2024-01", d |-> 15],
              hoursWorked |-> 800]),
     Request([employeeId |-> 1, overtime |-> 100])}

\* bodies of PUT /api/attendance/:id
AttendanceChanges ==
    {Request([hoursWorked |-> -800]),
     [body |-> [overtime |-> 100], wrongType |-> {"hoursWorked"}]}

\* the arrays of POST /api/attendance/bulk
BulkBodies ==
    {<<>>} \cup {<<a>> : a \in AttendanceBodies}
           \cup {<<a, b>> : a \in AttendanceBodies, b \in AttendanceBodies}

InitAttendance ==
    /\ employees = <<[name |-> "Ana Cruz", salaryRate |-> 50000,
                      salaryType |-> "hourly", isActive |-> TRUE]>>
    /\ attendance = {}
    /\ benefits = {}
    /\ payroll = {}
    /\ payrollRecords = <<>>
    /\ response = Reply("none", 0, "")
    /\ serial = [attendance |-> 0, benefits |-> 0]

NextAttendance ==
    \/ \E req \in AttendanceBodies : CreateAttendance(req)
    \/ \E reqs \in BulkBodies : BulkCreateAttendance(reqs)
    \/ \E id \in 1..MaxSerial, req \in AttendanceChanges : UpdateAttendance(id, req)
    \/ \E id \in 1..MaxSerial : DeleteAttendance(id)

SpecAttendance == InitAttendance /\ [][NextAttendance]_vars

(* --------------- valid and invalid bodies on every table --------------- *)
ValidationEmployeeBodies ==
    {Request([name |-> "Ben Reyes", salaryRate |-> 3000000]),
     [body |-> [salaryRate |-> -100], wrongType |-> {"isActive"}]}

ValidationEmployeeChanges ==
    {Request([salaryRate |-> 6263]),
     [body |-> [salaryRate |-> -100], wrongType |-> {"name"}]}

ValidationAttendanceBodies ==
    {Request([employeeId |-> 1, date |-> [ym |-> "2024-01", d |-> 15],
              hoursWorked |-> 800]),
     [body |-> [employeeId |-> 1], wrongType |-> {"hoursWorked"}]}

ValidationAttendanceChanges ==
    {Request([overtime |-> 100]),
     [body |-> [overtime |-> 100], wrongType |-> {"hoursWorked", "date"}]}

ValidationBenefitBodies ==
    {Request([employeeId |-> 1, type |-> "Allowance", amount |-> 200000,
              appliesTo |-> "2024-01"]),
     [body |-> [employeeId |-> 1, type |-> "Bonus"], wrongType |-> {"isTaxable"}]}

ValidationBenefitChanges ==
    {Request([amount |-> 150000]),
     [body |-> [amount |-> 150000], wrongType |-> {"type", "appliesTo"}]}

InitValidation == InitAttendance

NextValidation ==
    \/ \E req \in ValidationEmployeeBodies : CreateEmployee(req)
    \/ \E id \in 1..MaxEmployees, req \in ValidationEmployeeChanges :
          UpdateEmployee(id, req)
    \/ \E req \in ValidationAttendanceBodies : CreateAttendance(req)
    \/ \E id \in 1..MaxAttendance, req \in ValidationAttendanceChanges :
          UpdateAttendance(id, req)
    \/ \E req \in ValidationBenefitBodies : CreateBenefit(req)
    \/ \E id \in 1..MaxBenefits, req \in ValidationBenefitChanges :
          UpdateBenefit(id, req)

SpecValidation == InitValidation /\ [][NextValidation]_vars

(* ------------- the contribution utilities of the client ---------------- *)
\* lib/payroll-calculations.ts: 0.0225, as the ratio n / d
PHILHEALTH_CONTRIBUTION_RATE == [n |-> 225, d |-> 10000]

\* Math.min(grossPay * PHILHEALTH_CONTRIBUTION_RATE * 2, 1800)
calculatePhilHealthContribution(grossPay) ==
    LET contribution == Scale(Scale(grossPay, PHILHEALTH_CONTRIBUTION_RATE.n,
                                    PHILHEALTH_CONTRIBUTION_RATE.d), 2, 1)
    IN  MathMin(contribution, FromCents(180000))

\* gross pays in cents: every 500.00 up to 60000.00, and some amounts with
\* odd cents
GrossPayInputs == {k * 50000 : k \in 0..120} \cup {1, 33, 1234567, 3999999, 4000001}

\* a call of the utility; the answer holds the argument and the result
CalculatePhilHealthContribution(grossPay) ==
    /\ response' = ReplyWith("calculatePhilHealthContribution", 0, "",
                             [grossPay |-> grossPay,
                              result |-> calculatePhilHealthContribution(
                                             FromCents(grossPay))])
    /\ UNCHANGED <<employees, attendance, benefits, payroll, payrollRecords, serial>>

InitUtil == Init

NextUtil == \E grossPay \in GrossPayInputs : CalculatePhilHealthContribution(grossPay)

SpecUtil == InitUtil /\ [][NextUtil]_vars

(* ------------ generation between changes of its inputs ----------------- *)
\* One hourly employee with one attendance row and one allowance in
\* 2024-01; the id sequences leave room for one more row of each table, and
\* the payroll table, which holds what earlier runs for 2024-01 stored, for
\* the rows of one more run.
SnapshotEmployeeChanges ==
    {Request([salaryRate |-> 3000000, salaryType |-> "monthly"]),
     Request([isActive |-> TRUE])}

SnapshotAttendanceBodies ==
    {Request([employeeId |-> 1, date |-> [ym |-> "2024-01", d |-> 16],
              hoursWorked |-> 800])}

SnapshotAttendanceChanges == {Request([hoursWorked |-> 800])}

SnapshotBenefitBodies ==
    {Request([employeeId |-> 1, type |-> "Allowance", amount |-> 150000,
              appliesTo |-> "2024-01"])}

SnapshotBenefitChanges == {Request([amount |-> 150000])}

\* the payroll tables n runs of the generator for 2024-01 leave
RECURSIVE PriorRuns(_)
PriorRuns(n) ==
    IF n = 0 THEN {{}}
    ELSE {prior \cup rows :
            prior \in PriorRuns(n - 1),
            rows \in InsertedRows(<<ComputeRecord(1, "2024-01")>>, n)}

InitSnapshot ==
    /\ employees = <<[name |-> "Ana Cruz", position |-> "Clerk",
                      salaryRate |-> 50000, salaryType |-> "hourly",
                      isActive |-> TRUE]>>
    /\ attendance = {[id |-> MaxSerial - 1, employeeId |-> 1,
                      date |-> [ym |-> "2024-01", d |-> 15],
                      hoursWorked |-> 16000, overtime |-> 0]}
    /\ benefits = {[id |-> MaxSerial - 1, employeeId |-> 1, type |-> "Allowance",
                    amount |-> 200000, isTaxable |-> FALSE,
                    appliesTo |-> "2024-01"]}
    /\ payroll \in PriorRuns(MaxPayrollRows - 1)
    /\ payrollRecords = <<>>
    /\ response = Reply("none", 0, "")
    /\ serial = [attendance |-> MaxSerial - 1, benefits |-> MaxSerial - 1]

NextSnapshot ==
    \/ GeneratePayroll("2024-01")
    \/ \E req \in SnapshotEmployeeChanges : UpdateEmployee(1, req)
    \/ DeleteEmployee(1)
    \/ \E req \in SnapshotAttendanceBodies : CreateAttendance(req)
    \/ \E id \in (MaxSerial - 1)..MaxSerial, req \in SnapshotAttendanceChanges :
          UpdateAttendance(id, req)
    \/ \E id \in (MaxSerial - 1)..MaxSerial : DeleteAttendance(id)
    \/ \E req \in SnapshotBenefitBodies : CreateBenefit(req)
    \/ \E id \in (MaxSerial - 1)..MaxSerial, req \in SnapshotBenefitChanges :
          UpdateBenefit(id, req)
    \/ \E id \in (MaxSerial - 1)..MaxSerial : DeleteBenefit(id)

SpecSnapshot == InitSnapshot /\ [][NextSnapshot]_vars

\* the same requests, with a DELETE /api/employees/1 that the server has
\* received handled to its answer (express runs every handler it dispatches)
SpecSnapshotLive == SpecSnapshot /\ WF_vars(DeleteEmployee(1))

(* ------------------------------ claims --------------------------------- *)
Generated == response.op = "generate" /\ response.status = 201

RecordsOf == {payrollRecords[i] : i \in 1..Len(payrollRecords)}

\* hours of an employee in a pay period, summed from the attendance table
HoursIn(employeeId, payPeriod, field) ==
    SumOf({a \in attendance : a.employeeId = employeeId /\ a.date.ym = payPeriod},
          field)

\* C1: a successful generation run for period P inserts exactly one payroll
\* row with payPeriod = P for every active employee and none for an
\* inactive one
C1_OneRecordPerActiveEmployee ==
    [][(response'.op = "generate" /\ response'.status = 201) =>
          LET inserted == payroll' \ payroll
          IN  /\ \A row \in inserted :
                    /\ row.payPeriod = response'.payPeriod
                    /\ row.employeeId \in DOMAIN employees
              /\ \A id \in DOMAIN employees :
                    Cardinality({row \in inserted : row.employeeId = id})
                        = IF employees[id].isActive THEN 1 ELSE 0]_vars

C1_Witness ==
    /\ Generated
    /\ \E i, j \in DOMAIN employees :
          /\ employees[i].isActive
          /\ ~employees[j].isActive
          /\ \E row \in payroll : row.employeeId = i
          /\ \A row \in payroll : row.employeeId # j

\* C2: the payroll table never holds two rows for the same
\* (employeeId, payPeriod) pair, however often a period is generated
C2_OneRecordPerEmployeePeriod ==
    \A p, q \in payroll :
        (p.employeeId = q.employeeId /\ p.payPeriod = q.payPeriod) => p = q

\* C3: generating the same period again right after a successful run
\* either leaves the period's summary as it was or is rejected and inserts
\* nothing
C3_RegenerationIdempotent ==
    [][(/\ response.op = "generate" /\ response.status = 201
        /\ response'.op = "generate"
        /\ response'.payPeriod = response.payPeriod) =>
          \/ getPayrollSummary(payroll', response.payPeriod)
                = getPayrollSummary(payroll, response.payPeriod)
          \/ (response'.status # 201 /\ payroll' = payroll)]_vars

\* C4: on every stored payroll row, grossPay is exactly the sum of the
\* stored basePay, overtimePay, allowances and bonuses
C4_StoredGrossIsSum ==
    \A row \in payroll :
        row.grossPay = row.basePay + row.overtimePay + row.allowances + row.bonuses

\* C5: on every stored payroll row, netPay is exactly the stored grossPay
\* minus the stored totalDeductions
C5_StoredNetIsGrossMinusDeductions ==
    \A row \in payroll : row.netPay = row.grossPay - row.totalDeductions

\* C6: on every stored payroll row, totalDeductions is the sum of the five
\* stored deduction fields
C6_StoredTotalIsSumOfDeductions ==
    \A row \in payroll :
        row.totalDeductions = row.sssDeduction + row.philHealthDeduction
                                + row.pagIbigDeduction + row.taxDeduction
                                + row.otherDeductions

\* C7: the generated basePay of a 'monthly' employee is the salary rate
\* whatever the hours of the period, and that of an 'hourly' employee is
\* salaryRate x totalHours
C7_BasePayBySalaryType ==
    Generated =>
        \A rec \in RecordsOf :
            LET employee == employees[rec.employeeId]
                totalHours == HoursIn(rec.employeeId, rec.payPeriod, "hoursWorked")
            IN  /\ employee.salaryType = "monthly" =>
                      rec.basePay = [c |-> employee.salaryRate, r |-> 0]
                /\ employee.salaryType = "hourly" =>
                      rec.basePay = Scale([c |-> employee.salaryRate, r |-> 0],
                                          totalHours, 100)

C7_Witness ==
    /\ Generated
    /\ \E rec \in RecordsOf :
          /\ employees[rec.employeeId].salaryType = "monthly"
          /\ HoursIn(rec.employeeId, rec.payPeriod, "hoursWorked") > 0
          /\ rec.basePay.c = employees[rec.employeeId].salaryRate

\* C8: the generated overtimePay of an 'hourly' employee is
\* salaryRate x 1.5 x overtimeHours, and that of a 'monthly' employee is 0
\* whatever overtime the period holds
C8_OvertimePayBySalaryType ==
    Generated =>
        \A rec \in RecordsOf :
            LET employee == employees[rec.employeeId]
                overtimeHours == HoursIn(rec.employeeId, rec.payPeriod, "overtime")
            IN  /\ employee.salaryType = "hourly" =>
                      rec.overtimePay =
                          Scale(Scale([c |-> employee.salaryRate, r |-> 0], 15, 10),
                                overtimeHours, 100)
                /\ employee.salaryType = "monthly" =>
                      rec.overtimePay = [c |-> 0, r |-> 0]

C8_Witness ==
    /\ Generated
    /\ \E rec \in RecordsOf :
          /\ employees[rec.employeeId].salaryType = "hourly"
          /\ HoursIn(rec.employeeId, rec.payPeriod, "overtime") > 0
          /\ rec.overtimePay.c > 0

\* C9: the generated pagIbigDeduction is min(grossPay x 0.02, 100): never
\* above 100, and exactly 100 once grossPay reaches 5000
C9_PagIbigCappedAt100 ==
    Generated =>
        \A rec \in RecordsOf :
            LET twoPercent == Scale(rec.grossPay, 2, 100)
                hundred == [c |-> 10000, r |-> 0]
            IN  /\ rec.pagIbigDeduction =
                      IF Less(twoPercent, hundred) THEN twoPercent ELSE hundred
                /\ ~Less(hundred, rec.pagIbigDeduction)
                /\ rec.grossPay.c >= 500000 => rec.pagIbigDeduction = hundred

C9_Witness ==
    /\ Generated
    /\ \E rec \in RecordsOf :
          /\ rec.grossPay.c > 500000
          /\ rec.pagIbigDeduction = [c |-> 10000, r |-> 0]

\* C10: the generated sssDeduction and philHealthDeduction are both
\* grossPay x 0.045, uncapped; an hourly employee at 500 with 160 hours,
\* 10 overtime hours and no benefits gets gross 87500, SSS 3937.5,
\* PhilHealth 3937.5, Pag-IBIG 100 and net 79525
ScenarioA(rec) ==
    /\ employees[rec.employeeId].salaryType = "hourly"
    /\ employees[rec.employeeId].salaryRate = 50000
    /\ HoursIn(rec.employeeId, rec.payPeriod, "hoursWorked") = 16000
    /\ HoursIn(rec.employeeId, rec.payPeriod, "overtime") = 1000
    /\ \A b \in benefits :
          ~(b.employeeId = rec.employeeId /\ b.appliesTo = rec.payPeriod)

C10_SssAndPhilHealthFromGross ==
    Generated =>
        \A rec \in RecordsOf :
            /\ rec.sssDeduction = Scale(rec.grossPay, 45, 1000)
            /\ rec.philHealthDeduction = Scale(rec.grossPay, 45, 1000)
            /\ ScenarioA(rec) =>
                  /\ rec.grossPay = [c |-> 8750000, r |-> 0]
                  /\ rec.sssDeduction = [c |-> 393750, r |-> 0]
                  /\ rec.philHealthDeduction = [c |-> 393750, r |-> 0]
                  /\ rec.pagIbigDeduction = [c |-> 10000, r |-> 0]
                  /\ rec.netPay = [c |-> 7952500, r |-> 0]

C10_Witness ==
    /\ Generated
    /\ \E rec \in RecordsOf :
          /\ ScenarioA(rec)
          /\ rec.sssDeduction = [c |-> 393750, r |-> 0]

\* C11: every record of the generation path has taxDeduction = 0, also
\* when the gross pay is in a taxed bracket and taxable benefits are part of
\* it; the deductions total is made of SSS, PhilHealth, Pag-IBIG and other
\* deductions only, and the stored tax column is 0
C11_TaxDeductionAlwaysZero ==
    /\ Generated =>
          \A rec \in RecordsOf :
              /\ rec.taxDeduction = [c |-> 0, r |-> 0]
              /\ rec.totalDeductions =
                    Add(Add(Add(rec.sssDeduction, rec.philHealthDeduction),
                            rec.pagIbigDeduction), rec.otherDeductions)
    /\ \A row \in payroll : row.taxDeduction = 0

C11_Witness ==
    /\ Generated
    /\ \E rec \in RecordsOf :
          /\ calculateIncomeTax(rec.grossPay, [c |-> 0, r |-> 0]).c > 0
          /\ \E b \in benefits :
                /\ b.employeeId = rec.employeeId
                /\ b.appliesTo = rec.payPeriod
                /\ b.isTaxable
                /\ b.type \in {"Allowance", "Bonus"}
          /\ rec.taxDeduction = [c |-> 0, r |-> 0]
          /\ \E row \in payroll :
                row.employeeId = rec.employeeId /\ row.taxDeduction = 0

\* amounts of an employee's benefits that apply to a period and have one of
\* the given types, summed from the benefits table
AmountsIn(employeeId, payPeriod, types) ==
    SumOf({b \in benefits : /\ b.employeeId = employeeId
                            /\ b.appliesTo = payPeriod
                            /\ b.type \in types}, "amount")

\* C12: allowances is the sum of the employee's 'Allowance' benefits of the
\* period, bonuses the sum over 'Bonus' and '13th_month', otherDeductions
\* the sum over 'Deduction'; gross, total deductions and net are built from
\* these three sums alone, so a benefit of any other type ('SSS',
\* 'PhilHealth', 'Pag-IBIG', ...) reaches no field and no benefit is counted
\* twice
C12_BenefitCategorization ==
    Generated =>
        \A rec \in RecordsOf :
            LET allowances == AmountsIn(rec.employeeId, rec.payPeriod, {"Allowance"})
                bonuses == AmountsIn(rec.employeeId, rec.payPeriod,
                                     {"Bonus", "13th_month"})
                other == AmountsIn(rec.employeeId, rec.payPeriod, {"Deduction"})
                gross == Add(Add(rec.basePay, rec.overtimePay),
                             [c |-> allowances + bonuses, r |-> 0])
                total == Add(Add(Scale(gross, 45, 1000), Scale(gross, 45, 1000)),
                             Add(rec.pagIbigDeduction, [c |-> other, r |-> 0]))
            IN  /\ rec.allowances = [c |-> allowances, r |-> 0]
                /\ rec.bonuses = [c |-> bonuses, r |-> 0]
                /\ rec.otherDeductions = [c |-> other, r |-> 0]
                /\ rec.grossPay = gross
                /\ rec.totalDeductions = total
                /\ rec.netPay = Sub(gross, total)

C12_Witness ==
    /\ Generated
    /\ \E rec \in RecordsOf :
          /\ AmountsIn(rec.employeeId, rec.payPeriod,
                       {"SSS", "PhilHealth", "Pag-IBIG", "Loan"}) > 0
          /\ AmountsIn(rec.employeeId, rec.payPeriod,
                       {"Allowance", "Bonus", "13th_month", "Deduction"}) > 0
          /\ rec.allowances.c + rec.bonuses.c + rec.otherDeductions.c
                = AmountsIn(rec.employeeId, rec.payPeriod,
                            {"Allowance", "Bonus", "13th_month", "Deduction"})

NothingInPeriod(id, payPeriod) ==
    /\ employees[id].isActive
    /\ employees[id].salaryType = "hourly"
    /\ \A a \in attendance : ~(a.employeeId = id /\ a.date.ym = payPeriod)
    /\ \A b \in benefits : ~(b.employeeId = id /\ b.appliesTo = payPeriod)

C14_ZeroAttendanceIsZeroPay ==
    Generated =>
        \A id \in DOMAIN employees :
            NothingInPeriod(id, response.payPeriod) =>
                /\ \E rec \in RecordsOf :
                      /\ rec.employeeId = id
                      /\ rec.hoursWorked = 0
                      /\ rec.overtimeHours = 0
                      /\ \A f \in {"basePay", "overtimePay", "grossPay",
                                    "sssDeduction", "philHealthDeduction",
                                    "pagIbigDeduction", "taxDeduction",
                                    "otherDeductions", "totalDeductions", "netPay"} :
                            rec[f] = [c |-> 0, r |-> 0]
                /\ \E row \in payroll :
                      /\ row.employeeId = id
                      /\ row.payPeriod = response.payPeriod
                      /\ row.hoursWorked = 0
                      /\ row.basePay = 0
                      /\ row.grossPay = 0
                      /\ row.totalDeductions = 0
                      /\ row.netPay = 0

C14_Witness ==
    /\ Generated
    /\ \E id \in DOMAIN employees :
          /\ NothingInPeriod(id, response.payPeriod)
          /\ employees[id].salaryRate > 0
          /\ \E a \in attendance : a.employeeId = id
          /\ \E row \in payroll :
                /\ row.employeeId = id
                /\ row.payPeriod = response.payPeriod
                /\ row.grossPay = 0
                /\ row.netPay = 0

\* C15: a generate request whose pay-period token is missing or is not of
\* the form YYYY-MM is answered with a 4xx status
C15_BadTokenIsClientError ==
    (response.op = "generate" /\ response.payPeriod \notin Periods) =>
        (400 <= response.status /\ response.status <= 499)

\* C16: a generate request, answered 201, 400 or 500, leaves every
\* employee, attendance and benefit row as it was; the payroll table keeps
\* the rows it had and nothing else changes
C16_GenerationLeavesInputTables ==
    [][response'.op = "generate" =>
          /\ employees' = employees
          /\ attendance' = attendance
          /\ benefits' = benefits
          /\ payroll \subseteq payroll'
          /\ response'.status # 201 => payroll' = payroll]_vars

C16_Witness ==
    /\ Generated
    /\ payroll # {}
    /\ \E row \in payroll :
          /\ employees[row.employeeId].isActive
          /\ \E a \in attendance :
                a.employeeId = row.employeeId /\ a.date.ym = row.payPeriod
          /\ \E b \in benefits :
                b.employeeId = row.employeeId /\ b.appliesTo = row.payPeriod

\* C17: DELETE /api/employees/:id changes nothing but the active flag of
\* that employee, which becomes false: no employee row disappears, every
\* other field and every other employee stay as they were, and the
\* attendance, benefits and payroll tables are untouched
C17_DeleteIsDeactivation ==
    [][response'.op = "deleteEmployee" =>
          /\ DOMAIN employees' = DOMAIN employees
          /\ \E id \in 1..MaxEmployees :
                \A i \in DOMAIN employees :
                    employees'[i] =
                        IF i = id THEN [employees[i] EXCEPT !.isActive = FALSE]
                        ELSE employees[i]
          /\ attendance' = attendance
          /\ benefits' = benefits
          /\ payroll' = payroll]_vars

C17_Witness ==
    /\ response.op = "deleteEmployee"
    /\ \E id \in DOMAIN employees :
          /\ ~employees[id].isActive
          /\ employees[id].salaryRate > 0
          /\ \E a \in attendance : a.employeeId = id
          /\ \E b \in benefits : b.employeeId = id
          /\ \E row \in payroll : row.employeeId = id

\* the record the formulas of the generator give for an employee from that
\* employee's rate and type, own attendance of the period and own benefits
\* of the period, and from nothing else
RecordFromOwnInputs(id, payPeriod) ==
    LET employee == employees[id]
        own == {b \in benefits : b.employeeId = id /\ b.appliesTo = payPeriod}
        hours == [totalHours |-> HoursIn(id, payPeriod, "hoursWorked"),
                  overtimeHours |-> HoursIn(id, payPeriod, "overtime")]
        gross == GrossPay(BasePay(employee, hours), OvertimePay(employee, hours),
                          Allowances(own), Bonuses(own))
        total == TotalDeductions(SssDeduction(gross), PhilHealthDeduction(gross),
                                 PagIbigDeduction(gross), OtherDeductions(own))
    IN  [employeeId |-> id,
         payPeriod |-> payPeriod,
         hoursWorked |-> hours.totalHours,
         overtimeHours |-> hours.overtimeHours,
         basePay |-> BasePay(employee, hours),
         overtimePay |-> OvertimePay(employee, hours),
         allowances |-> Allowances(own),
         bonuses |-> Bonuses(own),
         grossPay |-> gross,
         sssDeduction |-> SssDeduction(gross),
         philHealthDeduction |-> PhilHealthDeduction(gross),
         pagIbigDeduction |-> PagIbigDeduction(gross),
         taxDeduction |-> [c |-> 0, r |-> 0],
         otherDeductions |-> OtherDeductions(own),
         totalDeductions |-> total,
         netPay |-> NetPay(gross, total)]

\* C18: the record generated for an employee is a function of that
\* employee's rate and type, attendance in the period and benefits in the
\* period only: whatever other employees exist, whatever their data and
\* whatever the processing order, every record of a run is the one these
\* inputs determine, and a run repeated on the same period right after
\* gives each employee the same record again
C18_RecordDependsOnOwnInputsOnly ==
    [][(response'.op = "generate" /\ response'.status = 201) =>
          /\ \A i \in 1..Len(payrollRecords') :
                payrollRecords'[i] =
                    RecordFromOwnInputs(payrollRecords'[i].employeeId,
                                        response'.payPeriod)
          /\ (Generated /\ response.payPeriod = response'.payPeriod) =>
                {payrollRecords'[i] : i \in 1..Len(payrollRecords')} = RecordsOf]_vars

C18_Witness ==
    /\ Generated
    /\ Len(payrollRecords) = 2
    /\ payrollRecords[1].employeeId = 2
    /\ payrollRecords[2].employeeId = 1
    /\ \E a \in attendance :
          a.employeeId = 2 /\ a.date.ym = response.payPeriod
    /\ \E b \in benefits :
          b.employeeId = 2 /\ b.appliesTo = response.payPeriod /\ b.type = "Bonus"
    /\ payrollRecords[2] = RecordFromOwnInputs(1, response.payPeriod)
    /\ payrollRecords[2].grossPay.c > 0

\* the employees that have payroll in a period
EmployeesPaidIn(payPeriod) ==
    {row.employeeId : row \in {p \in payroll : p.payPeriod = payPeriod}}

\* C19: the summary of a period reports as totalEmployees the number of
\* employees that have payroll in the period, and as totalGrossPay,
\* totalDeductions and totalNetPay the sums over the payroll rows of that
\* period only (all zero when it has none)
C19_SummaryOfPeriod ==
    (response.op = "summary" /\ response.status = 200) =>
        LET rows == {p \in payroll : p.payPeriod = response.payPeriod}
        IN  /\ response.body.totalEmployees
                  = Cardinality(EmployeesPaidIn(response.payPeriod))
            /\ response.body.totalGrossPay = SumOf(rows, "grossPay")
            /\ response.body.totalDeductions = SumOf(rows, "totalDeductions")
            /\ response.body.totalNetPay = SumOf(rows, "netPay")

\* C20: the CSV export of a period is the header line followed by exactly
\* one line per employee that has payroll in the period; every field is
\* between double quotes, and a line holds name, position, hours worked,
\* gross pay, SSS, PhilHealth, Pag-IBIG, total deductions and net pay of
\* that employee's payroll row, in this order
C20_CsvOneLinePerEmployee ==
    (response.op = "export" /\ response.status = 200) =>
        LET csv == response.body
            paid == EmployeesPaidIn(response.payPeriod)
            LineOf(p) ==
                Join([k \in 1..9 |->
                         <<"\"",
                           <<employees[p.employeeId].name,
                             employees[p.employeeId].position,
                             p.hoursWorked, p.grossPay, p.sssDeduction,
                             p.philHealthDeduction, p.pagIbigDeduction,
                             p.totalDeductions, p.netPay>>[k],
                           "\"">>], ",")
        IN  /\ Len(csv) = 1 + Cardinality(paid)
            /\ csv[1] = Join([k \in 1..9 |-> <<"\"", csvHeaders[k], "\"">>], ",")
            /\ \A id \in paid :
                  Cardinality({i \in 2..Len(csv) :
                      \E p \in payroll : /\ p.employeeId = id
                                          /\ p.payPeriod = response.payPeriod
                                          /\ csv[i] = LineOf(p)}) = 1

\* whether the table an operation addresses has a row with the id
RowExists(op, id) ==
    IF op \in {"getEmployee", "updateEmployee", "deleteEmployee"}
    THEN id \in DOMAIN employees
    ELSE IF op \in {"updateAttendance", "deleteAttendance"}
    THEN \E a \in attendance : a.id = id
    ELSE \E b \in benefits : b.id = id

\* C21: a GET, PUT or DELETE that names an employee, an attendance record
\* or a benefit by an id that no row has is answered 404 and changes no
\* stored row
C21_UnknownIdIsNotFound ==
    [][("id" \in DOMAIN response' /\ ~RowExists(response'.op, response'.id)) =>
          /\ response'.status = 404
          /\ employees' = employees
          /\ attendance' = attendance
          /\ benefits' = benefits
          /\ payroll' = payroll]_vars

\* the fields of a body that break a constraint of the schema: a value of
\* the wrong type, a required field that is absent (not on an update, where
\* every field is optional) and a salary rate that is no unsigned decimal
Violations(schema, partial, req) ==
    {f \in schema.fields :
        \/ f \in req.wrongType
        \/ ~partial /\ f \in schema.required /\ f \notin DOMAIN req.body
        \/ f = "salaryRate" /\ f \in DOMAIN req.body /\ req.body[f] < 0}

\* the answer a request with the body req must get when the body is invalid
RejectedWhole(schema, partial, req) ==
    Violations(schema, partial, req) # {} =>
        /\ response'.status = 400
        /\ response'.body = Violations(schema, partial, req)
        /\ employees' = employees
        /\ attendance' = attendance
        /\ benefits' = benefits
        /\ payroll' = payroll
        /\ serial' = serial

\* C22: a create or update request for an employee, an attendance record
\* or a benefit whose body fails the schema is answered 400 with all the
\* violations of the body, and leaves every table as it was
C22_InvalidBodyRejected ==
    [][/\ \A req \in ValidationEmployeeBodies :
             CreateEmployee(req) => RejectedWhole(insertEmployeeSchema, FALSE, req)
       /\ \A id \in 1..MaxEmployees, req \in ValidationEmployeeChanges :
             UpdateEmployee(id, req) => RejectedWhole(insertEmployeeSchema, TRUE, req)
       /\ \A req \in ValidationAttendanceBodies :
             CreateAttendance(req) => RejectedWhole(insertAttendanceSchema, FALSE, req)
       /\ \A id \in 1..MaxAttendance, req \in ValidationAttendanceChanges :
             UpdateAttendance(id, req) => RejectedWhole(insertAttendanceSchema, TRUE, req)
       /\ \A req \in ValidationBenefitBodies :
             CreateBenefit(req) => RejectedWhole(insertBenefitSchema, FALSE, req)
       /\ \A id \in 1..MaxBenefits, req \in ValidationBenefitChanges :
             UpdateBenefit(id, req) => RejectedWhole(insertBenefitSchema, TRUE, req)]_vars

C22_Witness ==
    /\ response.status = 400
    /\ response.op \in {"createEmployee", "updateEmployee", "createAttendance",
                        "updateAttendance", "createBenefit", "updateBenefit"}
    /\ Cardinality(response.body) >= 2
    /\ Len(employees) = 2
    /\ attendance # {}
    /\ benefits # {}

\* C23: every stored attendance record has between 0 and 24 hours worked
\* and no negative overtime, and every stored benefit has no negative amount
C23_HoursAndAmountsInRange ==
    /\ \A a \in attendance :
          /\ 0 <= a.hoursWorked /\ a.hoursWorked <= 2400
          /\ 0 <= a.overtime
    /\ \A b \in benefits : 0 <= b.amount

\* C24: every stored employee has a salary rate that is not negative and
\* the salary type hourly or monthly
C24_RateAndTypeValid ==
    \A id \in DOMAIN employees :
        /\ 0 <= employees[id].salaryRate
        /\ employees[id].salaryType \in {"hourly", "monthly"}

\* the rows a step added to the attendance table
StoredByStep == attendance' \ attendance

\* one new row for every element of the array, with the values the element
\* gives
OneRowPerElement(reqs) ==
    /\ attendance \subseteq attendance'
    /\ Cardinality(StoredByStep) = Len(reqs)
    /\ \A i \in 1..Len(reqs) :
          \E row \in StoredByStep :
              \A f \in DOMAIN reqs[i].body : row[f] = reqs[i].body[f]

ElementsValid(reqs) ==
    \A i \in 1..Len(reqs) : Violations(insertAttendanceSchema, FALSE, reqs[i]) = {}

C30_PhilHealthIsEmployeeShare ==
    response.op = "calculatePhilHealthContribution" =>
        response.body.result =
            MathMin(Scale(FromCents(response.body.grossPay), 225, 10000),
                    FromCents(180000))

\* C25: a step that changes the payroll table is a generate request
\* answered 201, and no step changes or removes a payroll row that exists
C25_PayrollAppendOnlyByGenerator ==
    [][/\ payroll \subseteq payroll'
       /\ payroll' # payroll =>
             response'.op = "generate" /\ response'.status = 201]_vars

C25_Witness ==
    /\ Generated
    /\ Cardinality(payroll) = MaxPayrollRows
    /\ \E a \in attendance : a.id = MaxSerial
    /\ \E b \in benefits : b.id = MaxSerial /\ b.amount = 150000
    /\ employees[1].salaryType = "monthly"

\* the requests that change what generation reads
InputChanges ==
    {"createAttendance", "bulkCreateAttendance", "updateAttendance",
     "deleteAttendance", "createBenefit", "updateBenefit", "deleteBenefit",
     "updateEmployee", "deleteEmployee"}

\* C27: a create, update or delete of attendance or benefits, and a change
\* of an employee's salary rate, salary type or active flag, leaves every
\* payroll row that exists as it is, field by field
C27_PayrollRowIsSnapshot ==
    [][response'.op \in InputChanges =>
          \A row \in payroll :
              \E kept \in payroll' :
                  /\ DOMAIN kept = DOMAIN row
                  /\ \A f \in DOMAIN row : kept[f] = row[f]]_vars

\* a payroll row of employee 1 for 2024-01 that a run on the present
\* tables would not give: the rate, the hours and the allowances have all
\* changed since, and the employee is no longer active
C27_Witness ==
    /\ response.op \in InputChanges
    /\ ~employees[1].isActive
    /\ \E row \in payroll :
          /\ row.id = MaxPayrollRows
          /\ row.employeeId = 1
          /\ row.basePay # BasePay(employees[1],
                                   getMonthlyAttendance(1, row.payPeriod)).c
          /\ row.hoursWorked # getMonthlyAttendance(1, row.payPeriod).totalHours
          /\ row.allowances # Allowances(getBenefits(1, row.payPeriod)).c

\* the payroll rows a step inserted
InsertedByStep == payroll' \ payroll

\* C26: a generation run answered 201 has inserted one row for each active
\* employee, all in that step; a run that fails is answered 500 and has
\* inserted no row at all, and a run is answered 400 only for a missing
\* token, with no row inserted
C26_GenerationAllOrNothing ==
    [][response'.op = "generate" =>
          /\ response'.status \in {201, 400, 500}
          /\ response'.status = 201 =>
                /\ Cardinality(InsertedByStep) = Cardinality(getEmployees)
                /\ {row.employeeId : row \in InsertedByStep} = getEmployees
          /\ response'.status = 500 =>
                InsertedByStep = {} /\ response'.payPeriod # ""
          /\ response'.status = 400 =>
                InsertedByStep = {} /\ response'.payPeriod = ""]_vars

C26_Witness ==
    /\ response.op = "generate"
    /\ response.status = 500
    /\ response.payPeriod \in Periods
    /\ getEmployees # {}
    /\ payroll # {}

\* the payroll rows of an employee
RowsOf(id) == {row \in payroll : row.employeeId = id}

\* a payroll row is among the rows getPayroll returns for its period, is
\* counted in the summary of the period, and has its line in the CSV export
InViews(row) ==
    /\ \A rows \in getPayroll(row.payPeriod) :
          \E i \in 1..Len(rows) :
              /\ rows[i].p = row
              /\ Len(csvContent(rows)) = Len(rows) + 1
              /\ csvContent(rows)[i + 1] =
                    Join([k \in 1..Len(csvHeaders) |-> Quoted(csvRow(rows[i])[k])], ",")
    /\ LET with == getPayrollSummary(payroll, row.payPeriod)
           without == getPayrollSummary(payroll \ {row}, row.payPeriod)
       IN  /\ with.totalEmployees = without.totalEmployees + 1
           /\ with.totalGrossPay = without.totalGrossPay + row.grossPay
           /\ with.totalNetPay = without.totalNetPay + row.netPay

====
